---- MODULE Spec2Model ----
(***************************************************************************)
(* jina/types/ndarray/__init__.py : the NdArray wrapper around the         *)
(* NdArrayProto wire record.  The record is a oneof {dense, sparse} plus a *)
(* backend tag (cls_name) and parameters['sparse_format'].  Arrays are     *)
(* modelled down to their bytes: an element is the sequence of bytes it    *)
(* occupies in memory, tobytes() concatenates them, frombuffer() cuts the  *)
(* buffer into itemsize-long elements again.                               *)
(***************************************************************************)
EXTENDS Integers, Sequences, FiniteSets, TLC

VARIABLES pb, op, arg, res, dec, protos, out

vars == <<pb, op, arg, res, dec, protos, out>>

\* ------------------------------------------------------------------ bounds
MaxDim == 2
MaxNnz == 2
MaxBuf == 3
MaxBatch == 2

\* ------------------------------------------------------- sequence helpers
RECURSIVE Prod(_)
Prod(s) == IF Len(s) = 0 THEN 1 ELSE Head(s) * Prod(Tail(s))

RECURSIVE Flatten(_)
Flatten(ss) == IF Len(ss) = 0 THEN <<>> ELSE Head(ss) \o Flatten(Tail(ss))

RECURSIVE Chunks(_, _)
Chunks(buf, w) ==
    IF Len(buf) = 0 THEN <<>>
    ELSE <<SubSeq(buf, 1, w)>> \o Chunks(SubSeq(buf, w + 1, Len(buf)), w)

Repeat(x, n) == [i \in 1..n |-> x]

\* little-endian two's complement image of a small non-negative integer
RECURSIVE IntToBytes(_, _)
IntToBytes(n, w) ==
    IF w = 0 THEN <<>> ELSE <<n % 256>> \o IntToBytes(n \div 256, w - 1)

RECURSIVE BytesToInt(_)
BytesToInt(b) ==
    IF Len(b) = 0 THEN 0 ELSE Head(b) + 256 * BytesToInt(Tail(b))

\* ------------------------------------------------------------ numpy layer
\* np.dtype(s).itemsize for the dtype strings that occur; 0 = not a dtype
ItemSize(dtype) ==
    CASE dtype = "|u1" -> 1
      [] dtype = "<i2" -> 2
      [] dtype = "<i4" -> 4
      [] dtype = "<i8" -> 8
      [] dtype = "<f8" -> 8
      [] OTHER -> 0

NoneValue == [kind |-> "none"]
Raised(e) == [kind |-> "raise", exc |-> e]
NdArr(shape, dtype, data) ==
    [kind |-> "ndarray", shape |-> shape, dtype |-> dtype, data |-> data]

\* np.frombuffer(buffer, dtype=dtype)
np_frombuffer(buffer, dtype) ==
    IF ItemSize(dtype) = 0 THEN Raised("TypeError")
    ELSE IF Len(buffer) % ItemSize(dtype) # 0 THEN Raised("ValueError")
    ELSE NdArr(<<Len(buffer) \div ItemSize(dtype)>>, dtype,
               Chunks(buffer, ItemSize(dtype)))

\* x.reshape(shape); one entry of shape may be -1
np_reshape(x, shape) ==
    LET unknown == {i \in 1..Len(shape) : shape[i] = -1}
        known == Prod([i \in 1..Len(shape) |->
                          IF shape[i] = -1 THEN 1 ELSE shape[i]])
        size == Len(x.data)
    IN  IF unknown = {}
        THEN IF known = size THEN [x EXCEPT !.shape = shape]
             ELSE Raised("ValueError")
        ELSE IF Cardinality(unknown) > 1 \/ known = 0 THEN Raised("ValueError")
        ELSE IF size % known # 0 THEN Raised("ValueError")
        ELSE [x EXCEPT !.shape = [i \in 1..Len(shape) |->
                          IF shape[i] = -1 THEN size \div known ELSE shape[i]]]

\* np.zeros(shape): float64
np_zeros(shape) ==
    NdArr(shape, "<f8", Repeat(<<0, 0, 0, 0, 0, 0, 0, 0>>, Prod(shape)))

\* --------------------------------------------------------- the wire record
DefaultBuffer == [buffer |-> <<>>, shape |-> <<>>, dtype |-> ""]
DefaultSparse ==
    [indices |-> DefaultBuffer, values |-> DefaultBuffer, shape |-> <<>>]

\* a freshly constructed NdArrayProto
EmptyRecord ==
    [cls_name |-> "", sparse_format |-> "",
     has_dense |-> FALSE, dense |-> DefaultBuffer,
     has_sparse |-> FALSE, sparse |-> DefaultSparse]

\* mutant: dense and sparse as two plain fields, the sparse one is kept
WriteDense_keepsparse(p, eb) ==
    [p EXCEPT !.has_dense = TRUE, !.dense = eb]

\* a write through self._pb_body.dense selects that member of the oneof
WriteDense(p, eb) ==
    [p EXCEPT !.has_dense = TRUE, !.dense = eb,
              !.has_sparse = FALSE, !.sparse = DefaultSparse]

\* a write through self._pb_body.sparse selects that member of the oneof
WriteSparse(p, sp) ==
    [p EXCEPT !.has_sparse = TRUE, !.sparse = sp,
              !.has_dense = FALSE, !.dense = DefaultBuffer]

is_sparse(p) == p.has_sparse

\* ------------------------------------------------------------- dense codec
\* mutant: a buffer that does not fit the shape is cut or zero-padded
_get_dense_array_lenient(source) ==
    IF Len(source.buffer) > 0
    THEN LET x == np_frombuffer(source.buffer, source.dtype)
         IN  IF x.kind = "raise" THEN x
             ELSE [x EXCEPT !.shape = source.shape,
                            !.data = [i \in 1..Prod(source.shape) |->
                                IF i <= Len(x.data) THEN x.data[i]
                                ELSE Repeat(0, ItemSize(source.dtype))]]
    ELSE IF Len(source.shape) > 0 THEN np_zeros(source.shape)
    ELSE NoneValue

_get_dense_array(source) ==
    IF Len(source.buffer) > 0
    THEN LET x == np_frombuffer(source.buffer, source.dtype)
         IN  IF x.kind = "raise" THEN x ELSE np_reshape(x, source.shape)
    ELSE IF Len(source.shape) > 0 THEN np_zeros(source.shape)
    ELSE NoneValue

_set_dense_array(value, target) ==
    [target EXCEPT !.buffer = Flatten(value.data),
                   !.shape = value.shape,
                   !.dtype = value.dtype]

DenseFrameworks == {"numpy", "torch", "paddle", "tensorflow"}

\* ------------------------------------------------------------ native values
\* a framework array or tensor: the module and class of its type, and its
\* content.  Dense: data holds the elements in row-major order.  Sparse:
\* coords[i] is the coordinate of data[i], in the storage order of format.
Native(module, class, sparse, format, shape, dtype, data, coords) ==
    [kind |-> "array", module |-> module, class |-> class, sparse |-> sparse,
     format |-> format, shape |-> shape, dtype |-> dtype, data |-> data,
     coords |-> coords]

FrameworkClass(framework) ==
    CASE framework = "numpy" -> "ndarray"
      [] framework = "tensorflow" -> "EagerTensor"
      [] OTHER -> "Tensor"

\* x is what the decode before it produced; an exception of the decode
\* propagates, a None reaches the framework's constructor
_to_framework_array(x, framework) ==
    IF x.kind = "raise" THEN x
    ELSE IF x.kind = "none"
    THEN IF framework = "numpy" THEN NoneValue ELSE Raised("TypeError")
    ELSE Native(framework, FrameworkClass(framework), FALSE, "",
                x.shape, x.dtype, x.data, <<>>)

_get_array_type(array) ==
    CASE array.module = "numpy" -> <<"numpy", FALSE>>
      [] array.module = "jina" /\ array.class = "NdArray" -> <<"jina", FALSE>>
      [] array.module = "jina_pb2" /\ array.class = "NdArrayProto" ->
            <<"jina_proto", FALSE>>
      [] array.module = "tensorflow" /\ array.class = "SparseTensor" ->
            <<"tensorflow", TRUE>>
      [] array.module = "tensorflow" /\ array.class \in {"Tensor", "EagerTensor"} ->
            <<"tensorflow", FALSE>>
      [] array.module = "torch" /\ array.class = "Tensor" ->
            <<"torch", array.sparse>>
      [] array.module = "paddle" /\ array.class = "Tensor" -> <<"paddle", FALSE>>
      [] array.module = "scipy" -> <<"scipy", TRUE>>
      [] OTHER -> <<"TypeError", FALSE>>

\* --------------------------------------------------- integer index arrays
IntArr(shape, dtype, ints) ==
    NdArr(shape, dtype, [i \in 1..Len(ints) |-> IntToBytes(ints[i], ItemSize(dtype))])

\* the rows of a 2-D array, each as a sequence of integers
Rows2D(x) ==
    [i \in 1..x.shape[1] |->
        [j \in 1..x.shape[2] |-> BytesToInt(x.data[(i - 1) * x.shape[2] + j])]]

\* x.T of a 2-D array
np_T(x) ==
    [x EXCEPT !.shape = <<x.shape[2], x.shape[1]>>,
              !.data = [k \in 1..Len(x.data) |->
                  x.data[((k - 1) % x.shape[1]) * x.shape[2]
                         + ((k - 1) \div x.shape[1]) + 1]]]

\* mutant: stacked along axis 0, shape (2, nnz)
np_stack_axis0(row, col) ==
    IntArr(<<2, Len(row)>>, "<i4", row \o col)

\* np.stack([row, col], axis=1): shape (nnz, 2), int32 as scipy keeps them
np_stack_axis1(row, col) ==
    IntArr(<<Len(row), 2>>, "<i4",
           [k \in 1..(2 * Len(row)) |->
               IF k % 2 = 1 THEN row[(k + 1) \div 2] ELSE col[k \div 2]])

\* ------------------------------------------------------ coordinate helpers
RECURSIVE LexLess(_, _)
LexLess(a, b) ==
    IF Len(a) = 0 \/ Len(b) = 0 THEN Len(a) < Len(b)
    ELSE IF Head(a) # Head(b) THEN Head(a) < Head(b)
    ELSE LexLess(Tail(a), Tail(b))

Reverse(s) == [i \in 1..Len(s) |-> s[Len(s) + 1 - i]]

\* "row": row-major order, "col": column-major order
OrderKey(order, coord) == IF order = "col" THEN Reverse(coord) ELSE coord

RECURSIVE InsertEntry(_, _, _)
InsertEntry(e, sorted, order) ==
    IF Len(sorted) = 0 THEN <<e>>
    ELSE IF LexLess(OrderKey(order, e[1]), OrderKey(order, Head(sorted)[1]))
    THEN <<e>> \o sorted
    ELSE <<Head(sorted)>> \o InsertEntry(e, Tail(sorted), order)

\* stable sort of <<coordinate, value>> entries
RECURSIVE SortEntries(_, _)
SortEntries(es, order) ==
    IF Len(es) = 0 THEN <<>>
    ELSE InsertEntry(es[Len(es)], SortEntries(SubSeq(es, 1, Len(es) - 1), order), order)

Entries(coords, data) == [i \in 1..Len(coords) |-> <<coords[i], data[i]>>]

InBounds(coords, shape) ==
    \A i \in 1..Len(coords) :
        /\ Len(coords[i]) = Len(shape)
        /\ \A d \in 1..Len(shape) : coords[i][d] >= 0 /\ coords[i][d] < shape[d]

FormatOrder(format) == IF format = "csc" THEN "col" ELSE "row"

\* ------------------------------------------------------------ sparse encode
\* value.tocoo(copy=True): the stored entries, in storage order
tocoo(value) ==
    [row |-> [i \in 1..Len(value.coords) |-> value.coords[i][1]],
     col |-> [i \in 1..Len(value.coords) |-> value.coords[i][2]],
     data |-> NdArr(<<Len(value.data)>>, value.dtype, value.data),
     shape |-> value.shape]

\* value.coalesce(): entries in lexicographic coordinate order
coalesce(value) ==
    LET es == SortEntries(Entries(value.coords, value.data), "row")
    IN  [value EXCEPT !.coords = [i \in 1..Len(es) |-> es[i][1]],
                      !.data = [i \in 1..Len(es) |-> es[i][2]]]

\* SparseTensor.indices.numpy(): shape (nnz, ndim), int64
tf_indices(value) ==
    IntArr(<<Len(value.coords), Len(value.shape)>>, "<i8",
           Flatten(value.coords))

\* Tensor.indices().numpy() of a coalesced tensor: shape (ndim, nnz), int64
torch_indices(value) ==
    IntArr(<<Len(value.shape), Len(value.coords)>>, "<i8",
           Flatten([d \in 1..Len(value.shape) |->
                       [i \in 1..Len(value.coords) |-> value.coords[i][d]]]))

values_array(value) == NdArr(<<Len(value.data)>>, value.dtype, value.data)

\* the three writes into self._pb_body.sparse, then the tag
SetSparseFields(p, indices, values, shape, cls_name) ==
    LET p1 == WriteSparse(p, [p.sparse EXCEPT
                  !.indices = _set_dense_array(indices, @)])
        p2 == WriteSparse(p1, [p1.sparse EXCEPT
                  !.values = _set_dense_array(values, @)])
        p3 == WriteSparse(p2, [p2.sparse EXCEPT !.shape = shape])
    IN  [p3 EXCEPT !.cls_name = cls_name]

_set_scipy_sparse(p, value) ==
    LET v == tocoo(value)
        indices == np_stack_axis1(v.row, v.col)
    IN  SetSparseFields(p, indices, v.data, v.shape, "scipy")

_set_tf_sparse(p, value) ==
    SetSparseFields(p, tf_indices(value), values_array(value), value.shape,
                    "tensorflow")

_set_torch_sparse(p, value) ==
    SetSparseFields(p, torch_indices(coalesce(value)),
                    values_array(coalesce(value)), value.shape, "torch")

\* ---------------------------------------------------------------- the setter
\* mutant: the tag written before the copy survives it
CopyFrom_keeptag(self, other, same) ==
    IF same THEN self ELSE [other EXCEPT !.cls_name = self.cls_name]

\* message.CopyFrom(other): nothing happens when other is the message itself
CopyFrom(self, other, same) == IF same THEN self ELSE other

\* mutant: the format is only recorded when none is recorded yet
SetSparseFormat_ifabsent(p, value) ==
    IF p.sparse_format = "" THEN [p EXCEPT !.sparse_format = value.format] ELSE p

\* self._pb_body.parameters['sparse_format'] = value.getformat()
SetSparseFormat(p, value) == [p EXCEPT !.sparse_format = value.format]

\* the dense branch: tag, then _set_dense_array into self._pb_body.dense
SetDense(p, value, cls_name) ==
    LET p1 == [p EXCEPT !.cls_name = cls_name]
    IN  WriteDense(p1, _set_dense_array(value, p1.dense))

\* NdArray.value setter; a TypeError of _get_array_type leaves the record
value_set(p, value) ==
    LET t == _get_array_type(value)
        framework == t[1]
        sparse == t[2]
    IN  IF framework = "TypeError" THEN p
        ELSE IF framework \in {"jina", "jina_proto"}
        THEN CopyFrom([p EXCEPT !.cls_name = "numpy"], value.pb, value.alias)
        ELSE IF sparse
        THEN CASE framework = "scipy" ->
                    _set_scipy_sparse(SetSparseFormat(p, value), value)
               [] framework = "tensorflow" -> _set_tf_sparse(p, value)
               [] framework = "torch" -> _set_torch_sparse(p, value)
               [] OTHER -> p
        ELSE IF framework \in {"numpy", "tensorflow", "torch", "paddle"}
        THEN SetDense(p, value, framework)
        ELSE p

\* ---------------------------------------------------------------- the getter
_get_raw_sparse_array(p) ==
    [idx |-> _get_dense_array(p.sparse.indices),
     val |-> _get_dense_array(p.sparse.values),
     shape |-> p.sparse.shape]

\* the first exception of decoding indices and values, if there is one
RawError(raw) ==
    IF raw.idx.kind = "raise" THEN raw.idx
    ELSE IF raw.val.kind = "raise" THEN raw.val
    ELSE NoneValue

\* coo_matrix((val, idx.T), shape=shape)
coo_matrix(raw) ==
    IF raw.idx.kind # "ndarray" THEN Raised("AttributeError")
    ELSE IF raw.val.kind # "ndarray" \/ Len(raw.idx.shape) # 2
    THEN Raised("ValueError")
    ELSE LET t == np_T(raw.idx)
         IN  IF t.shape[1] # 2 \/ Len(raw.val.shape) # 1
                \/ t.shape[2] # Len(raw.val.data) \/ Len(raw.shape) # 2
             THEN Raised("ValueError")
             ELSE LET rc == Rows2D(t)
                      coords == [i \in 1..t.shape[2] |-> <<rc[1][i], rc[2][i]>>]
                  IN  IF ~InBounds(coords, raw.shape) THEN Raised("ValueError")
                      ELSE Native("scipy", "coo_matrix", TRUE, "coo", raw.shape,
                                  raw.val.dtype, raw.val.data, coords)

\* x.tocsr(), x.tocsc(), x.tobsr()
toformat(x, format) ==
    IF x.kind = "raise" THEN x
    ELSE LET es == SortEntries(Entries(x.coords, x.data), FormatOrder(format))
         IN  [x EXCEPT !.class = format \o "_matrix", !.format = format,
                       !.coords = [i \in 1..Len(es) |-> es[i][1]],
                       !.data = [i \in 1..Len(es) |-> es[i][2]]]

\* tensorflow.SparseTensor(idx, val, shape): indices are (nnz, ndim)
SparseTensor(raw) ==
    IF raw.idx.kind # "ndarray" \/ raw.val.kind # "ndarray" THEN Raised("ValueError")
    ELSE IF Len(raw.idx.shape) # 2 \/ Len(raw.val.shape) # 1 THEN Raised("ValueError")
    ELSE IF raw.idx.shape[1] # Len(raw.val.data)
            \/ raw.idx.shape[2] # Len(raw.shape) THEN Raised("ValueError")
    ELSE Native("tensorflow", "SparseTensor", TRUE, "coo", raw.shape,
                raw.val.dtype, raw.val.data, Rows2D(raw.idx))

\* torch.sparse_coo_tensor(idx, val, shape): indices are (ndim, nnz)
sparse_coo_tensor(raw) ==
    IF raw.idx.kind # "ndarray" \/ raw.val.kind # "ndarray" THEN Raised("TypeError")
    ELSE IF Len(raw.idx.shape) # 2 \/ Len(raw.val.shape) # 1 THEN Raised("RuntimeError")
    ELSE IF raw.idx.shape[2] # Len(raw.val.data)
            \/ raw.idx.shape[1] # Len(raw.shape) THEN Raised("RuntimeError")
    ELSE LET coords == Rows2D(np_T(raw.idx))
         IN  IF ~InBounds(coords, raw.shape) THEN Raised("RuntimeError")
             ELSE Native("torch", "Tensor", TRUE, "coo", raw.shape,
                         raw.val.dtype, raw.val.data, coords)

\* NdArray.value getter
value_get(p) ==
    LET framework == p.cls_name
    IN  IF is_sparse(p)
        THEN LET raw == _get_raw_sparse_array(p)
             IN  IF framework \in {"scipy", "tensorflow", "torch"}
                    /\ RawError(raw).kind = "raise"
                 THEN RawError(raw)
                 ELSE CASE framework = "scipy" ->
                        LET x == coo_matrix(raw)
                        IN  IF x.kind = "raise" THEN x
                            ELSE IF p.sparse_format = "" THEN Raised("ValueError")
                            ELSE IF p.sparse_format \in {"bsr", "csc", "csr"}
                            THEN toformat(x, p.sparse_format)
                            ELSE IF p.sparse_format = "coo" THEN x
                            ELSE NoneValue
                   [] framework = "tensorflow" -> SparseTensor(raw)
                   [] framework = "torch" -> sparse_coo_tensor(raw)
                   [] OTHER -> NoneValue
        ELSE IF framework \in DenseFrameworks
             THEN _to_framework_array(_get_dense_array(p.dense), framework)
             ELSE NoneValue

\* --------------------------------------------------------------- the inputs
\* scalars, vectors and matrices of at most MaxDim elements per axis and in all
Shapes ==
    {<<>>} \cup {<<a>> : a \in 0..MaxDim}
           \cup {s \in {<<a, b>> : a, b \in 0..MaxDim} : s[1] * s[2] <= MaxDim}

DenseDTypes == {"<i2"}

\* two element values per dtype, as the bytes they occupy
Elems(dtype) == IF dtype = "|u1" THEN {<<0>>, <<7>>} ELSE {<<0, 0>>, <<1, 2>>}

DenseValues ==
    UNION {UNION {{Native(f, FrameworkClass(f), FALSE, "", s, dt, d, <<>>) :
                      d \in [1..Prod(s) -> Elems(dt)], f \in DenseFrameworks} :
                  dt \in DenseDTypes} : s \in Shapes}

SparseShapes ==
    {s \in {<<r, c>> : r, c \in 1..MaxDim} : s[1] * s[2] <= MaxDim}

SparseDType == "<i2"

\* the i-th stored value of a sparse input: all different, none zero
SparseData(n) == [i \in 1..n |-> <<i, 2>>]

CoordsOf(shape) == {<<i, j>> : i \in 0..(shape[1] - 1), j \in 0..(shape[2] - 1)}

\* sequences of at most MaxNnz distinct coordinates
CoordSeqs(shape) ==
    UNION {{c \in [1..n -> CoordsOf(shape)] :
               \A i, j \in 1..n : i # j => c[i] # c[j]} : n \in 0..MaxNnz}

IsSorted(coords, order) ==
    \A i \in 1..(Len(coords) - 1) :
        LexLess(OrderKey(order, coords[i]), OrderKey(order, coords[i + 1]))

ScipyFormats == {"coo", "csr", "csc", "bsr", "lil"}

SparseOf(module, class, formats) ==
    UNION {{Native(module, class, TRUE, fmt, s, SparseDType,
                   SparseData(Len(c)), c) :
               c \in CoordSeqs(s), fmt \in formats} : s \in SparseShapes}

\* scipy matrices hold their entries in the order of their format
ScipyValues ==
    {[v EXCEPT !.class = v.format \o "_matrix"] :
        v \in {w \in SparseOf("scipy", "", ScipyFormats) :
                  w.format = "coo" \/ IsSorted(w.coords, FormatOrder(w.format))}}

TfSparseValues == SparseOf("tensorflow", "SparseTensor", {"coo"})
TorchSparseValues == SparseOf("torch", "Tensor", {"coo"})
SparseValues == ScipyValues \cup TfSparseValues \cup TorchSparseValues

\* a value of a type _get_array_type does not know
UnsupportedValues == {Native("builtins", "list", FALSE, "", <<1>>, "|u1", <<<<7>>>>, <<>>)}

\* records another party built or received: what the setter writes for a few
\* values, also under a different tag or sparse_format, and dense members
\* whose buffer does not fit their shape
SeedValues ==
    {v \in DenseValues : v.module \in {"numpy", "torch"} /\ v.dtype = "<i2"
                         /\ v.shape \in {<<>>, <<0>>, <<2>>}
                         /\ \A i \in 1..Len(v.data) : v.data[i] = <<1, 2>>}
    \cup {v \in SparseValues : v.format \in {"coo", "csr"} /\ v.shape = <<1, 1>>}

SourceTags == {"", "jax", "numpy", "scipy"}

SourceRecords ==
    LET seeds == {value_set(EmptyRecord, v) : v \in SeedValues}
        numpy == [EmptyRecord EXCEPT !.cls_name = "numpy"]
    IN  seeds
        \cup {[r EXCEPT !.cls_name = t] : r \in seeds, t \in SourceTags}
        \cup {[r EXCEPT !.sparse_format = "dia"] : r \in {q \in seeds : q.has_sparse}}
        \cup {EmptyRecord, WriteDense(numpy, DefaultBuffer),
              WriteDense(numpy, [buffer |-> <<1, 2, 3>>, shape |-> <<2>>, dtype |-> "<i2"]),
              WriteDense(numpy, [buffer |-> <<1, 2>>, shape |-> <<2>>, dtype |-> "<i2"])}

\* an NdArray wrapper or a raw NdArrayProto around record r
Wrapped(module, r, alias) ==
    [kind |-> "record", module |-> module,
     class |-> IF module = "jina" THEN "NdArray" ELSE "NdArrayProto",
     pb |-> r, alias |-> alias]

WrapperModules == {"jina", "jina_pb2"}

NotRun == [kind |-> "notrun"]

\* ------------------------------------------------------------------ actions
Init ==
    /\ pb = EmptyRecord
    /\ op = "init"
    /\ arg = NotRun
    /\ res = NotRun
    /\ dec = NotRun
    /\ protos = <<>>
    /\ out = NotRun

\* record.value = v, v a dense array or tensor
SetDenseValue ==
    \E v \in DenseValues :
        /\ pb' = value_set(pb, v)
        /\ op' = "set_dense"
        /\ arg' = v
        /\ res' = NotRun
        /\ UNCHANGED <<dec, protos, out>>

\* record.value = v, v a sparse matrix or tensor
SetSparseValue ==
    \E v \in SparseValues :
        /\ pb' = value_set(pb, v)
        /\ op' = "set_sparse"
        /\ arg' = v
        /\ res' = NotRun
        /\ UNCHANGED <<dec, protos, out>>

\* record.value = other, other another record, wrapped or raw
SetPassthrough ==
    \E r \in SourceRecords, m \in WrapperModules :
        /\ pb' = value_set(pb, Wrapped(m, r, FALSE))
        /\ op' = "set_record"
        /\ arg' = Wrapped(m, r, FALSE)
        /\ res' = NotRun
        /\ UNCHANGED <<dec, protos, out>>

\* record.value = record: the source is the target itself; arg holds the
\* source as it is after the assignment
SetSelf ==
    \E m \in WrapperModules :
        /\ pb' = value_set(pb, Wrapped(m, pb, TRUE))
        /\ op' = "set_record"
        /\ arg' = Wrapped(m, pb', TRUE)
        /\ res' = NotRun
        /\ UNCHANGED <<dec, protos, out>>

\* record.value = v raises TypeError
SetUnsupported ==
    \E v \in UnsupportedValues :
        /\ _get_array_type(v)[1] = "TypeError"
        /\ pb' = value_set(pb, v)
        /\ op' = "set_error"
        /\ arg' = v
        /\ res' = NotRun
        /\ UNCHANGED <<dec, protos, out>>

\* record.value is read
GetValue ==
    /\ op # "get"
    /\ res' = value_get(pb)
    /\ op' = "get"
    /\ UNCHANGED <<pb, arg, dec, protos, out>>

Next ==
    \/ SetDenseValue
    \/ SetSparseValue
    \/ SetPassthrough
    \/ SetSelf
    \/ SetUnsupported
    \/ GetValue

Spec == Init /\ [][Next]_vars

\* ------------------------------------------------------------ the unravel
_unravel_dense_array(source, shape, dtype) ==
    LET x == np_frombuffer(Flatten(source), dtype)
    IN  IF x.kind = "raise" THEN x ELSE np_reshape(x, <<-1>> \o shape)

\* scipy.sparse.csr_matrix((vals, (rows, cols)), shape=shape).  Entries at
\* one coordinate are summed there; they are kept apart here, which differs
\* only where a coordinate occurs twice
csr_matrix(vals, rows, cols, shape) ==
    IF Len(rows) # Len(cols) \/ Len(vals.data) # Len(rows) THEN Raised("ValueError")
    ELSE LET coords == [i \in 1..Len(rows) |-> <<rows[i], cols[i]>>]
         IN  IF ~InBounds(coords, shape) THEN Raised("ValueError")
             ELSE toformat(Native("scipy", "coo_matrix", TRUE, "coo", shape,
                                  vals.dtype, vals.data, coords), "csr")

\* the scipy branch of NdArray.unravel
unravel_scipy(ps) ==
    LET first == ps[1]
        n_examples == Len(ps)
        indices_bytes == Flatten([k \in 1..Len(ps) |-> ps[k].sparse.indices.buffer])
        values_bytes == Flatten([k \in 1..Len(ps) |-> ps[k].sparse.values.buffer])
        row_indices == Flatten([k \in 1..Len(ps) |->
                           Repeat(k - 1, ps[k].sparse.values.shape[1])])
        indices_np == np_frombuffer(indices_bytes, first.sparse.indices.dtype)
        halves == np_reshape(indices_np, <<2, -1>>)
        vals_np == np_frombuffer(values_bytes, first.sparse.values.dtype)
    IN  IF Len(first.sparse.shape) < 2 THEN Raised("IndexError")
        ELSE IF \E k \in 1..Len(ps) : Len(ps[k].sparse.values.shape) = 0
        THEN Raised("IndexError")
        ELSE IF first.sparse.values.dtype = "" THEN NoneValue
        ELSE IF indices_np.kind = "raise" THEN indices_np
        ELSE IF halves.kind = "raise" THEN halves
        ELSE IF vals_np.kind = "raise" THEN vals_np
        ELSE csr_matrix(vals_np, row_indices, Rows2D(halves)[2],
                        <<n_examples, first.sparse.shape[2]>>)

\* np.vstack([[j] * n, _d]) of the torch branch, as rows of integers
TorchStacked(p, j) ==
    LET d == _get_dense_array(p.sparse.indices)
    IN  IF d.kind = "raise" THEN d
        ELSE IF d.kind = "none" THEN Raised("AttributeError")
        ELSE IF Len(d.shape) # 2 THEN Raised("ValueError")
        ELSE [kind |-> "rows", n |-> d.shape[2],
              rows |-> <<Repeat(j, d.shape[2])>> \o Rows2D(d)]

\* the torch branch of NdArray.unravel
unravel_torch(ps) ==
    LET first == ps[1]
        all_ds == [k \in 1..Len(ps) |-> TorchStacked(ps[k], k - 1)]
        failed == {k \in 1..Len(ps) : all_ds[k].kind = "raise"}
        val == _unravel_dense_array([k \in 1..Len(ps) |-> ps[k].sparse.values.buffer],
                                    <<>>, first.sparse.values.dtype)
        shape == <<Len(ps)>> \o first.sparse.shape
    IN  IF failed # {} THEN all_ds[CHOOSE k \in failed : \A l \in failed : k <= l]
        ELSE IF val.kind = "raise" THEN val
        ELSE IF \E k \in 1..Len(ps) : Len(all_ds[k].rows) # Len(all_ds[1].rows)
        THEN Raised("ValueError")
        ELSE LET nrows == Len(all_ds[1].rows)
                 rows == [r \in 1..nrows |->
                             Flatten([k \in 1..Len(ps) |-> all_ds[k].rows[r]])]
                 idx == IntArr(<<nrows, Len(rows[1])>>, "<i8", Flatten(rows))
             IN  sparse_coo_tensor([idx |-> idx, val |-> val, shape |-> shape])

\* NdArray.unravel(protos)
unravel(ps) ==
    IF Len(ps) = 0 THEN Raised("StopIteration")
    ELSE LET first == ps[1]
             framework == first.cls_name
         IN  IF is_sparse(first)
             THEN CASE framework = "tensorflow" -> Raised("NotImplementedError")
                    [] framework = "scipy" -> unravel_scipy(ps)
                    [] framework = "torch" -> unravel_torch(ps)
                    [] OTHER -> NoneValue
             ELSE IF framework \in DenseFrameworks
             THEN _to_framework_array(
                      _unravel_dense_array([k \in 1..Len(ps) |-> ps[k].dense.buffer],
                                           first.dense.shape, first.dense.dtype),
                      framework)
             ELSE NoneValue

\* the values whose records make up the batches
BatchShapes == {<<>>, <<0>>, <<2>>}

BatchValues ==
    UNION {UNION {{Native(f, FrameworkClass(f), FALSE, "", s, dt, d, <<>>) :
                      d \in [1..Prod(s) -> Elems(dt)]} :
                  s \in BatchShapes} :
           f \in {"numpy", "torch"}, dt \in {"|u1", "<i2"}}
    \cup {v \in ScipyValues : v.format = "csr" /\ v.shape[1] = 1}
    \cup {v \in TorchSparseValues : v.shape[1] = 1 /\ IsSorted(v.coords, "row")}
    \cup {v \in TfSparseValues : v.shape = <<1, 1>>}

\* one more record, as the setter writes it for v, joins the batch
BatchAppend ==
    \E v \in BatchValues :
        /\ Len(protos) < MaxBatch
        /\ protos' = Append(protos, value_set(EmptyRecord, v))
        /\ out' = NotRun
        /\ UNCHANGED <<pb, op, arg, res, dec>>

\* NdArray.unravel(protos)
Unravel ==
    /\ out = NotRun
    /\ out' = [kind |-> "unraveled", result |-> unravel(protos)]
    /\ UNCHANGED <<pb, op, arg, res, dec, protos>>

NextBatch ==
    \/ BatchAppend
    \/ Unravel

SpecBatch == Init /\ [][NextBatch]_vars

\* ------------------------------------------------- decode of any buffer
ByteValues == {0, 1}

Buffers == UNION {[1..n -> ByteValues] : n \in 0..MaxBuf}

ElementBuffers ==
    {[buffer |-> b, shape |-> s, dtype |-> dt] :
        b \in Buffers, s \in Shapes, dt \in {"|u1", "<i2"}}

\* _get_dense_array(source) on a dense member of any content
DecodeBuffer ==
    \E eb \in ElementBuffers :
        /\ dec' = [kind |-> "decoded", source |-> eb,
                   result |-> _get_dense_array(eb)]
        /\ UNCHANGED <<pb, op, arg, res, protos, out>>

NextDecode == DecodeBuffer

SpecDecode == Init /\ [][NextDecode]_vars

\* ---------------------------------------------------------------- claims
Populated(p) == IF p.has_sparse THEN "sparse" ELSE IF p.has_dense THEN "dense" ELSE "none"

\* C1: the record never has both the dense and the sparse member populated;
\* right after a set with a dense value only the dense member is populated,
\* right after a set with a sparse value only the sparse member is
C1_MutuallyExclusive ==
    /\ ~(pb.has_dense /\ pb.has_sparse)
    /\ op = "set_dense" => pb.has_dense /\ ~pb.has_sparse
    /\ op = "set_sparse" => pb.has_sparse /\ ~pb.has_dense

\* a dense value was set on a record that has carried a scipy matrix before
C1_Witness ==
    /\ op = "set_dense"
    /\ pb.sparse_format \in ScipyFormats
    /\ pb.has_dense /\ ~pb.has_sparse

\* C2: after record.value = source, source a wrapped or raw record, the
\* populated member, its buffers, shapes and dtypes and the tag of the target
\* are those of the source
C2_PassthroughCopies ==
    op = "set_record" =>
        /\ Populated(pb) = Populated(arg.pb)
        /\ pb.dense = arg.pb.dense
        /\ pb.sparse = arg.pb.sparse
        /\ pb.cls_name = arg.pb.cls_name

\* a raw scipy record was copied into a record that held something else
C2_Witness ==
    /\ op = "set_record"
    /\ ~arg.alias
    /\ arg.module = "jina_pb2"
    /\ arg.pb.has_sparse
    /\ arg.pb.cls_name = "scipy"
    /\ pb.cls_name = "scipy"
    /\ Len(pb.sparse.indices.buffer) > 0

DenseSet(v) == v.kind = "array" /\ ~v.sparse /\ v.module \in DenseFrameworks

\* C3: a dense value set and then read comes back with the same backend,
\* shape, dtype and bytes
C3_DenseRoundTrip ==
    (op = "get" /\ DenseSet(arg)) =>
        /\ res.kind = "array"
        /\ res.module = arg.module
        /\ res.shape = arg.shape
        /\ res.dtype = arg.dtype
        /\ res.data = arg.data

Pairs(v) == {<<v.coords[i], v.data[i]>> : i \in 1..Len(v.coords)}

SparseSet(v) ==
    /\ v.kind = "array"
    /\ v.sparse
    /\ v.module \in {"scipy", "tensorflow", "torch"}
    /\ v.format \in {"coo", "csr", "csc", "bsr"}

\* C4: a sparse value set and then read comes back as a sparse value of the
\* same backend with the same dense shape and the same (coordinate, value)
\* pairs; a scipy matrix comes back in the format it was set in, which is the
\* format the record holds
C4_SparseRoundTrip ==
    (op = "get" /\ SparseSet(arg)) =>
        /\ res.kind = "array"
        /\ res.sparse
        /\ res.module = arg.module
        /\ res.shape = arg.shape
        /\ Len(res.coords) = Len(arg.coords)
        /\ Pairs(res) = Pairs(arg)
        /\ arg.module = "scipy" =>
              res.format = arg.format /\ pb.sparse_format = arg.format

\* a csc matrix with two entries came back as csc
C4_Witness ==
    /\ op = "get"
    /\ SparseSet(arg)
    /\ arg.module = "scipy"
    /\ arg.format = "csc"
    /\ Len(arg.coords) = 2
    /\ res.kind = "array"
    /\ res.format = "csc"

\* C6: the getter returns None only for a dense record whose tag is not a
\* dense backend (an empty record is read as dense)
C6_NoneOnlyUnsupportedDense ==
    (op = "get" /\ res.kind = "none") =>
        ~is_sparse(pb) /\ pb.cls_name \notin DenseFrameworks

\* the integers of a buffer holding integers
BufferInts(eb) ==
    LET c == Chunks(eb.buffer, ItemSize(eb.dtype))
    IN  [i \in 1..Len(c) |-> BytesToInt(c[i])]

\* the i-th value of the record with the i-th row / column of its indices
RowPairs(sp, nnz, ndim) ==
    {<<SubSeq(BufferInts(sp.indices), (i - 1) * ndim + 1, i * ndim),
       Chunks(sp.values.buffer, ItemSize(sp.values.dtype))[i]>> : i \in 1..nnz}

ColumnPairs(sp, nnz, ndim) ==
    {<<[d \in 1..ndim |-> BufferInts(sp.indices)[(d - 1) * nnz + i]],
       Chunks(sp.values.buffer, ItemSize(sp.values.dtype))[i]>> : i \in 1..nnz}

RowMajorIndices(sp, v) ==
    /\ sp.indices.shape = <<Len(v.coords), Len(v.shape)>>
    /\ sp.values.shape = <<Len(v.coords)>>
    /\ sp.indices.shape[1] = sp.values.shape[1]
    /\ RowPairs(sp, Len(v.coords), Len(v.shape)) = Pairs(v)

ColumnMajorIndices(sp, v) ==
    /\ sp.indices.shape = <<Len(v.shape), Len(v.coords)>>
    /\ sp.values.shape = <<Len(v.coords)>>
    /\ ColumnPairs(sp, Len(v.coords), Len(v.shape)) = Pairs(v)

\* C8 as stated: after a set with a sparse value of any backend the indices
\* have shape (nnz, ndim), the values shape (nnz,), and row i of the indices
\* is the coordinate of values[i]
C8_Original ==
    op = "set_sparse" => RowMajorIndices(pb.sparse, arg)

\* C8 as amended: that holds for scipy and tensorflow; for torch the indices
\* have shape (ndim, nnz) and column i is the coordinate of values[i]
C8_SparseWireLayout ==
    op = "set_sparse" =>
        IF arg.module = "torch" THEN ColumnMajorIndices(pb.sparse, arg)
        ELSE RowMajorIndices(pb.sparse, arg)

\* a torch tensor and a scipy matrix with one entry in two dimensions
C8_Witness ==
    /\ op = "set_sparse"
    /\ arg.module \in {"torch", "scipy"}
    /\ Len(arg.coords) = 1
    /\ Len(arg.shape) = 2
    /\ Len(pb.sparse.indices.buffer) > 0

Needed(eb) == Prod(eb.shape) * ItemSize(eb.dtype)

\* C7 as stated: a buffer whose length is not product(shape) * itemsize,
\* product(shape) > 0, the empty buffer included, makes the decode raise
C7_Original ==
    (dec.kind = "decoded" /\ Prod(dec.source.shape) > 0
        /\ Len(dec.source.buffer) # Needed(dec.source)) =>
        dec.result.kind = "raise"

\* C7 as amended: a non-empty buffer of the wrong length makes the decode
\* raise; an empty buffer never does: it decodes to a zero-filled array of the
\* shape, and to None when the shape is empty
C7_DecodeFailsFast ==
    dec.kind = "decoded" =>
        /\ (Len(dec.source.buffer) > 0 /\ Prod(dec.source.shape) > 0
              /\ Len(dec.source.buffer) # Needed(dec.source)) =>
                 dec.result.kind = "raise"
        /\ (Len(dec.source.buffer) = 0 /\ Len(dec.source.shape) > 0) =>
              dec.result = np_zeros(dec.source.shape)
        /\ (Len(dec.source.buffer) = 0 /\ Len(dec.source.shape) = 0) =>
              dec.result = NoneValue

\* a buffer of whole elements, more of them than the shape holds
C7_Witness ==
    /\ dec.kind = "decoded"
    /\ Prod(dec.source.shape) > 0
    /\ Len(dec.source.buffer) > Needed(dec.source)
    /\ Len(dec.source.buffer) % ItemSize(dec.source.dtype) = 0
    /\ dec.result.kind = "raise"

SameDenseBatch ==
    /\ Len(protos) > 0
    /\ \A k \in 1..Len(protos) :
          /\ protos[k].has_dense /\ ~protos[k].has_sparse
          /\ protos[k].cls_name = protos[1].cls_name
          /\ protos[k].dense.dtype = protos[1].dense.dtype
          /\ protos[k].dense.shape = protos[1].dense.shape
          /\ Len(protos[k].dense.buffer) = Needed(protos[k].dense)

\* C5: N dense records of one tag, dtype and shape S unravel to one array of
\* shape [N, *S] whose k-th element is the decode of the k-th record
C5_DenseUnravel ==
    (out.kind = "unraveled" /\ SameDenseBatch) =>
        LET S == protos[1].dense.shape
        IN  /\ out.result.kind = "array"
            /\ out.result.shape = <<Len(protos)>> \o S
            /\ \A k \in 1..Len(protos) :
                  /\ value_get(protos[k]).kind = "array"
                  /\ SubSeq(out.result.data, (k - 1) * Prod(S) + 1, k * Prod(S))
                        = value_get(protos[k]).data

ScipyRowBatch ==
    /\ Len(protos) > 0
    /\ \A k \in 1..Len(protos) :
          /\ protos[k].has_sparse
          /\ protos[k].cls_name = "scipy"
          /\ Len(protos[k].sparse.shape) = 2
          /\ protos[k].sparse.shape[1] = 1
          /\ protos[k].sparse.shape = protos[1].sparse.shape

\* C9: N scipy records of 1 x F matrices unravel to an N x F matrix whose
\* row k holds exactly the (column, value) pairs of the k-th record
C9_ScipyUnravel ==
    (out.kind = "unraveled" /\ ScipyRowBatch) =>
        /\ out.result.kind = "array"
        /\ out.result.shape = <<Len(protos), protos[1].sparse.shape[2]>>
        /\ Len(out.result.coords) = Cardinality(Pairs(out.result))
        /\ Pairs(out.result) =
              UNION {{<<<<k - 1, e[1][2]>>, e[2]>> : e \in Pairs(value_get(protos[k]))} :
                     k \in 1..Len(protos)}

ValueDType(p) == IF p.has_sparse THEN p.sparse.values.dtype ELSE p.dense.dtype

InconsistentBatch ==
    \E k \in 1..Len(protos) :
        \/ protos[k].cls_name # protos[1].cls_name
        \/ protos[k].has_sparse # protos[1].has_sparse
        \/ ValueDType(protos[k]) # ValueDType(protos[1])

\* C10: a batch in which a record differs from the first in tag, populated
\* member or dtype makes unravel fail and return nothing
C10_InconsistentBatchFails ==
    (out.kind = "unraveled" /\ InconsistentBatch) => out.result.kind = "raise"
====
